---- MODULE Spec2Model ----
(***************************************************************************)
(* The L4 redirection hook of internal/drift/bpf/drift_l4.c: the tc        *)
(* program drift_l4_ingress, its two rewriters rewrite_tcp / rewrite_udp   *)
(* and the portmap hash map it reads.                                      *)
(*                                                                         *)
(* A frame is the sequence of its bytes (byte at offset o is skb[o + 1]).  *)
(* 16-bit quantities are written as their network-order value; one's       *)
(* complement sums do not depend on the byte order they are computed in.   *)
(* A 32-bit quantity (an IPv4 address, a __wsum) is the pair <<hi, lo>> of *)
(* its 16-bit halves, so that no intermediate exceeds the integer range.   *)
(***************************************************************************)
EXTENDS Integers, Sequences, FiniteSets, TLC

VARIABLES
    portmap,    \* the BPF hash map: a function from a set of keys to values
    pc,         \* position of the invocation
    skb,        \* the frame buffer, as the invocation has left it so far
    rx,         \* the frame as received (history)
    loc,        \* locals of drift_l4_ingress / rewrite_*: offsets, old and new values
    verdict,    \* <<>> while running, <<v>> once the program returned v
    reads,      \* set of <<offset, size>> packet dereferences of this invocation (history)
    lookups,    \* sequence of keys passed to bpf_map_lookup_elem (history)
    found,      \* <<>> or <<value>>: what the lookup returned (history)
    applied,    \* sequence of helper calls that succeeded (history)
    failed,     \* "none" or the helper call that returned non-zero (history)
    vptr,       \* <<>> or <<element>>: the map element the pointer `value` refers to
    sup         \* the supervisor of build/images/init/init.c (its own specification)

vars == <<portmap, pc, skb, rx, loc, verdict, reads, lookups, found, applied, failed, vptr, sup>>

-----------------------------------------------------------------------------
(* Program constants *)

ETH_HLEN == 14
ETH_P_IP == 2048
IPHDR_SIZE == 20
TCPHDR_SIZE == 20
UDPHDR_SIZE == 8
BE16_SIZE == 2
IPPROTO_TCP == 6
IPPROTO_UDP == 17
TC_ACT_OK == 0
MIN_IHL == 5

\* offsetof(...) within the headers
ETH_PROTO_OFF == 12
IP_PROTOCOL_OFF == 9
IP_CHECK_OFF == 10
IP_DADDR_OFF == 16
L4_DEST_OFF == 2
TCP_CHECK_OFF == 16
UDP_CHECK_OFF == 6

\* Bounds of the model
MaxPayload == 2

-----------------------------------------------------------------------------
(* Bytes and words of a frame *)

Max(a, b) == IF a >= b THEN a ELSE b

\* A load of one byte; the program only ever loads inside the buffer, a load
\* outside it is recorded in reads and modelled as yielding 0.
Rd8(f, o) == IF o < Len(f) THEN f[o + 1] ELSE 0
Rd16(f, o) == Rd8(f, o) * 256 + Rd8(f, o + 1)
Rd32(f, o) == <<Rd16(f, o), Rd16(f, o + 2)>>

Wr16(f, o, v) == [f EXCEPT ![o + 1] = v \div 256, ![o + 2] = v % 256]
Wr32(f, o, a) == Wr16(Wr16(f, o, a[1]), o + 2, a[2])

B16(v) == <<v \div 256, v % 256>>
B32(a) == B16(a[1]) \o B16(a[2])

Not16(v) == 65535 - v

-----------------------------------------------------------------------------
(* 32-bit one's complement arithmetic of the checksum helpers *)

\* csum_add: res = a + b; res += (res < b)
csum_add(a, b) ==
    LET lo == a[2] + b[2]
        hi == a[1] + b[1] + (lo \div 65536)
        c  == hi \div 65536
        lo2 == (lo % 65536) + c
        hi2 == (hi % 65536) + (lo2 \div 65536)
    IN  <<hi2 % 65536, lo2 % 65536>>

csum_not(a) == <<Not16(a[1]), Not16(a[2])>>
csum_sub(a, b) == csum_add(a, csum_not(b))
csum_unfold(s) == <<0, s>>

\* csum_fold: fold the halves twice, return the complement
csum_fold(a) ==
    LET s1 == a[1] + a[2]
        s2 == (s1 % 65536) + (s1 \div 65536)
    IN  Not16(s2 % 65536)

\* csum_replace4(sum, from, to): *sum = csum_fold(csum_add(csum_sub(~csum_unfold(*sum), from), to))
csum_replace4(sum, from, to) ==
    csum_fold(csum_add(csum_sub(csum_not(csum_unfold(sum)), from), to))

-----------------------------------------------------------------------------
(* The kernel helpers the rewriters call, as functions of the frame.  Each  *)
(* returns the frame after a successful call; a failing call returns       *)
(* non-zero before writing anything.                                       *)

\* bpf_l4_csum_replace(skb, off, from, to, 2): inet_proto_csum_replace2
l4_csum_replace2(f, off, from, to) ==
    Wr16(f, off, csum_replace4(Rd16(f, off), <<0, from>>, <<0, to>>))

\* bpf_l4_csum_replace(skb, off, from, to, 4 | BPF_F_PSEUDO_HDR): inet_proto_csum_replace4
l4_csum_replace4(f, off, from, to) ==
    Wr16(f, off, csum_replace4(Rd16(f, off), from, to))

\* bpf_l3_csum_replace(skb, off, from, to, 4): csum_replace4
l3_csum_replace4(f, off, from, to) ==
    Wr16(f, off, csum_replace4(Rd16(f, off), from, to))

\* bpf_skb_store_bytes(skb, off, &v, sizeof(v), 0)
skb_store_port(f, off, v) == Wr16(f, off, v)
skb_store_ip(f, off, a) == Wr32(f, off, a)

-----------------------------------------------------------------------------
(* Reference checksums, recomputed from scratch (RFC 1071, RFC 768, RFC 793) *)

Add16(a, b) == LET s == a + b IN IF s > 65535 THEN s - 65535 ELSE s

\* one's complement sum of the 16-bit words of bytes f[from .. to), the byte at
\* offset skip and skip + 1 (the checksum field) counted as zero, an odd last
\* byte padded with zero
RECURSIVE SumBytes(_, _, _, _)
SumBytes(f, from, to, skip) ==
    IF from >= to THEN 0
    ELSE LET w == IF from = skip THEN 0
                  ELSE Rd8(f, from) * 256 + (IF from + 1 < to THEN Rd8(f, from + 1) ELSE 0)
         IN  Add16(w, SumBytes(f, from + 2, to, skip))

HdrLen(f) == (Rd8(f, ETH_HLEN) % 16) * 4
L4Off(f) == ETH_HLEN + HdrLen(f)
Proto(f) == Rd8(f, ETH_HLEN + IP_PROTOCOL_OFF)
L4CheckOff(f) == L4Off(f) + (IF Proto(f) = IPPROTO_TCP THEN TCP_CHECK_OFF ELSE UDP_CHECK_OFF)

\* IPv4 header checksum over the whole header, options included
IpCsumScratch(f) ==
    Not16(SumBytes(f, ETH_HLEN, L4Off(f), ETH_HLEN + IP_CHECK_OFF))

\* sum over pseudo-header (saddr, daddr, protocol, L4 length) and segment
L4SumScratch(f) ==
    LET l4len == Len(f) - L4Off(f)
        ph == Add16(SumBytes(f, ETH_HLEN + 12, ETH_HLEN + IPHDR_SIZE, 0 - 2),
                    Add16(Proto(f), l4len))
    IN  Add16(ph, SumBytes(f, L4Off(f), Len(f), L4CheckOff(f)))

TcpCsumScratch(f) == Not16(L4SumScratch(f))

\* a computed UDP checksum of zero is transmitted as all ones
UdpCsumScratch(f) ==
    LET c == Not16(L4SumScratch(f)) IN IF c = 0 THEN 65535 ELSE c

L4CsumScratch(f) == IF Proto(f) = IPPROTO_TCP THEN TcpCsumScratch(f) ELSE UdpCsumScratch(f)

IpCheck(f) == Rd16(f, ETH_HLEN + IP_CHECK_OFF)
L4Check(f) == Rd16(f, L4CheckOff(f))
Daddr(f) == Rd32(f, ETH_HLEN + IP_DADDR_OFF)
Dport(f) == Rd16(f, L4Off(f) + L4_DEST_OFF)

-----------------------------------------------------------------------------
(* The frames offered to the hook *)

SrcMac == <<2, 0, 0, 0, 0, 1>>
DstMac == <<2, 0, 0, 0, 0, 2>>
Saddr == <<44048, 9>>            \* 172.16.0.9
OrigDaddr == <<51968, 28935>>    \* 203.0.113.7

Ports == {8080, 8081, 53}
Protos == {1, IPPROTO_TCP, IPPROTO_UDP}          \* 1: ICMP
EtherTypes == {ETH_P_IP, 33024, 34525, 2054}      \* IPv4, 802.1Q, IPv6, ARP
IHLs == 0 .. 15

\* payload bytes: three patterns.  With a 2-byte payload the second makes the
\* UDP sum of the frame rewritten to 192.168.1.2:5353 come out as 0xFFFF, the
\* third does the same for the TCP sum of the frame rewritten to 10.0.0.5:80.
PayloadByte(v, i) == IF v = 1 THEN (17 * i + 1) % 256
                     ELSE IF v = 2 THEN (IF i = 1 THEN 76 ELSE IF i = 2 THEN 244 ELSE 0)
                     ELSE (IF i = 1 THEN 197 ELSE IF i = 2 THEN 42 ELSE 0)
Payload(v, n) == [i \in 1 .. n |-> PayloadByte(v, i)]
Payloads == {Payload(v, n) : v \in {1, 2, 3}, n \in 0 .. MaxPayload}

\* IP option bytes: distinct from any port or address byte used
Options(n) == [i \in 1 .. n |-> 128 + i]

L4Header(proto, dport, ck, paylen) ==
    IF proto = IPPROTO_TCP
    THEN B16(12345) \o B16(dport) \o <<0, 0, 0, 1>> \o <<0, 0, 0, 0>>
         \o <<80, 16>> \o B16(1024) \o B16(ck) \o <<0, 0>>
    ELSE IF proto = IPPROTO_UDP
    THEN B16(12345) \o B16(dport) \o B16(UDPHDR_SIZE + paylen) \o B16(ck)
    ELSE <<8, 0, 0, 0, 0, 1, 0, 1>>

\* the frame with both checksum fields zero
RawFrame(et, ihl, proto, dport, pay) ==
    LET hl == Max(ihl, MIN_IHL) * 4
        l4 == L4Header(proto, dport, 0, Len(pay))
    IN  DstMac \o SrcMac \o B16(et)
        \o <<64 + ihl, 0>> \o B16(hl + Len(l4) + Len(pay)) \o <<0, 7, 64, 0>>
        \o <<64, proto>> \o <<0, 0>> \o B32(Saddr) \o B32(OrigDaddr)
        \o Options(hl - IPHDR_SIZE) \o l4 \o pay

\* ck = TRUE: the sender computed the L4 checksum; FALSE: a UDP sender left it zero
MkFrame(et, ihl, proto, dport, ck, pay) ==
    LET raw == RawFrame(et, ihl, proto, dport, pay)
        l3  == Wr16(raw, ETH_HLEN + IP_CHECK_OFF,
                    Not16(SumBytes(raw, ETH_HLEN, ETH_HLEN + Max(ihl, MIN_IHL) * 4,
                                   ETH_HLEN + IP_CHECK_OFF)))
        l4o == ETH_HLEN + Max(ihl, MIN_IHL) * 4
        cko == l4o + (IF proto = IPPROTO_TCP THEN TCP_CHECK_OFF ELSE UDP_CHECK_OFF)
        l4len == Len(raw) - l4o
        sum == Add16(Add16(SumBytes(raw, ETH_HLEN + 12, ETH_HLEN + IPHDR_SIZE, 0 - 2),
                           Add16(proto, l4len)),
                     SumBytes(raw, l4o, Len(raw), cko))
        c   == IF proto = IPPROTO_UDP /\ Not16(sum) = 0 THEN 65535 ELSE Not16(sum)
    IN  IF proto \in {IPPROTO_TCP, IPPROTO_UDP} /\ ck THEN Wr16(l3, cko, c) ELSE l3

\* lengths a frame is truncated to: each bound the parser tests, and one less
Cuts(f, ihl) ==
    LET l4o == ETH_HLEN + Max(ihl, MIN_IHL) * 4
    IN  {n \in {0, ETH_HLEN - 1, ETH_HLEN, ETH_HLEN + IPHDR_SIZE - 1, ETH_HLEN + IPHDR_SIZE,
                l4o + BE16_SIZE - 1, l4o + BE16_SIZE, l4o + UDPHDR_SIZE - 1,
                l4o + UDPHDR_SIZE, l4o + TCPHDR_SIZE - 1, l4o + TCPHDR_SIZE, Len(f)} :
            n <= Len(f)}

Ipv4Frames ==
    UNION { LET f == MkFrame(ETH_P_IP, ihl, proto, dport, ck, pay)
            IN  {SubSeq(f, 1, n) : n \in Cuts(f, ihl)} :
            ihl \in IHLs, proto \in Protos, dport \in Ports,
            ck \in BOOLEAN, pay \in Payloads }

OtherFrames ==
    UNION { LET f == MkFrame(et, MIN_IHL, proto, 8080, TRUE, Payload(1, MaxPayload))
            IN  {SubSeq(f, 1, n) : n \in {ETH_HLEN - 1, ETH_HLEN, Len(f)}} :
            et \in EtherTypes \ {ETH_P_IP}, proto \in {IPPROTO_TCP, IPPROTO_UDP} }

Frames == Ipv4Frames \cup OtherFrames

\* the policy table's keys and values used by the control plane
Key(proto, port) == [proto |-> proto, pad |-> 0, port |-> port]
Value(ip, port) == [dst_ip |-> ip, dst_port |-> port]
PolicyKeys == {Key(IPPROTO_TCP, 8080), Key(IPPROTO_UDP, 53)}
PolicyValues == {Value(<<2560, 5>>, 80), Value(<<49320, 258>>, 5353)}

-----------------------------------------------------------------------------
(* drift_l4_ingress: the parser *)

\* the bounds checks, each TRUE when the program returns TC_ACT_OK
eth_oob(len) == ETH_HLEN > len                              \* (void *)(eth + 1) > data_end
ip_oob(len) == ETH_HLEN + IPHDR_SIZE > len                  \* (void *)(iph + 1) > data_end
l4_oob(l4, len) == l4 + BE16_SIZE > len                     \* l4 + sizeof(__be16) > data_end
\* variant: only the four bytes up to the destination port are checked
tcp_oob_short(l4, len) == l4 + L4_DEST_OFF + BE16_SIZE > len
tcp_oob(l4, len) == l4 + TCPHDR_SIZE > len                  \* (void *)(tcph + 1) > data_end
\* variant: the two-byte check of line 100 is taken to cover the UDP header
udp_oob_short(l4, len) == l4 + BE16_SIZE > len
udp_oob(l4, len) == l4 + UDPHDR_SIZE > len                  \* (void *)(udph + 1) > data_end


\* variant: 802.1Q frames are let through as if the tag were the IPv4 header
not_ipv4_vlan(h_proto) == h_proto \notin {ETH_P_IP, 33024}
not_ipv4(h_proto) == h_proto # ETH_P_IP                     \* eth->h_proto != bpf_htons(ETH_P_IP)
\* variant: a header length of 4 words is let through
bad_ihl_lax(ihl) == ihl < MIN_IHL - 1
bad_ihl(ihl) == ihl < MIN_IHL                               \* iph->ihl < 5
\* variant: the L4 header is taken to follow a 20-byte IPv4 header
l4_offset_fixed(l3, ihl) == l3 + IPHDR_SIZE
l4_offset(l3, ihl) == l3 + ihl * 4                          \* (void *)iph + ihl_bytes

NotApplicable(rd) ==
    [ok |-> FALSE, proto |-> 0, port |-> 0, l3_off |-> 0, l4_off |-> 0, reads |-> rd]

\* lines 80..112 / 120..126: the walk from the Ethernet header to the L4
\* destination port; reads collects every dereference made on the way
Parse(f) ==
    LET len == Len(f)
        r1 == {<<ETH_PROTO_OFF, 2>>}
        l3 == ETH_HLEN
        r2 == r1 \cup {<<l3, 1>>}
        ihl == Rd8(f, l3) % 16
        r3 == r2 \cup {<<l3 + IP_PROTOCOL_OFF, 1>>}
        proto == Rd8(f, l3 + IP_PROTOCOL_OFF)
        l4 == l4_offset(l3, ihl)
        r4 == r3 \cup {<<l4 + L4_DEST_OFF, 2>>}
        hit == [ok |-> TRUE, proto |-> proto, port |-> Rd16(f, l4 + L4_DEST_OFF),
                l3_off |-> l3, l4_off |-> l4, reads |-> r4]
    IN  IF eth_oob(len) THEN NotApplicable({})
        ELSE IF not_ipv4(Rd16(f, ETH_PROTO_OFF)) THEN NotApplicable(r1)
        ELSE IF ip_oob(len) THEN NotApplicable(r1)
        ELSE IF bad_ihl(ihl) THEN NotApplicable(r2)
        ELSE IF l4_oob(l4, len) THEN NotApplicable(r3)
        ELSE IF proto = IPPROTO_TCP
             THEN (IF tcp_oob(l4, len) THEN NotApplicable(r3) ELSE hit)
        ELSE IF proto = IPPROTO_UDP
             THEN (IF udp_oob(l4, len) THEN NotApplicable(r3) ELSE hit)
        ELSE NotApplicable(r3)

\* variant: the key's protocol is ignored, any entry for the port matches
map_lookup_anyproto(map, key) ==
    IF \E k \in DOMAIN map : k.port = key.port
    THEN <<map[CHOOSE k \in DOMAIN map : k.port = key.port]>>
    ELSE <<>>

\* the table after a lookup that consumes the entry it finds
map_after_lookup_consume(map, key) == [x \in DOMAIN map \ {key} |-> map[x]]

\* the table after bpf_map_lookup_elem(&portmap, &key), the only map helper the
\* program calls: as it was
map_after_lookup(map, key) == map

\* bpf_map_lookup_elem(&portmap, &key): <<>> for NULL, <<value>> for a hit
map_lookup(map, key) == IF key \in DOMAIN map THEN <<map[key]>> ELSE <<>>

\* variant: the padding byte of the key is left as found on the stack
make_key_dirty(proto, port) == [proto |-> proto, pad |-> 1, port |-> port]

\* struct portmap_key key = { .proto = proto, .port = dest }: pad is zeroed
make_key(proto, port) == [proto |-> proto, pad |-> 0, port |-> port]

\* the value every return statement of the program returns
ret_parse == TC_ACT_OK       \* lines 85, 88, 92, 95, 101, 109, 123, 134
ret_miss == TC_ACT_OK        \* lines 116, 130
ret_fail_shot == TC_ACT_OK + 2      \* variant: TC_ACT_SHOT when a helper fails
ret_fail == TC_ACT_OK        \* lines 38, 41, 44, 47, 49, 61, 63, 67, 70, 72
ret_done_pipe == TC_ACT_OK + 3      \* variant: a verdict of its own after a rewrite
ret_done == TC_ACT_OK        \* lines 51, 74

\* variant: the UDP checksum is updated whether or not it is in use
udp_has_csum_always(check) == TRUE

\* if (udph->check): the UDP checksum is updated only when it is in use
udp_has_csum(check) == check # 0

NoLoc == [kind |-> "none", l3_off |-> 0, l4_off |-> 0, old_port |-> 0,
          old_ip |-> <<0, 0>>, new_ip |-> <<0, 0>>, new_port |-> 0]

-----------------------------------------------------------------------------
(* The map element behind the pointer bpf_map_lookup_elem returned.  portmap   *)
(* is a preallocated BPF_MAP_TYPE_HASH: an update never writes the stored      *)
(* element in place, it links a new element and unlinks the old one, and an    *)
(* unlinked element is handed to a later update without waiting for the        *)
(* programs that still hold a pointer to it.  The program's loads through the  *)
(* pointer race with that reuse.                                               *)

\* the element after upsert(k, v) by the control plane
elem_after_update(k, v) ==
    IF vptr = <<>> THEN {vptr}
    ELSE IF vptr[1].live
         THEN {IF k = lookups[1] THEN <<[vptr[1] EXCEPT !.live = FALSE]>> ELSE vptr}
         ELSE {vptr, <<[vptr[1] EXCEPT !.val = v]>>}

\* the element after remove(k) by the control plane
elem_after_delete(k) ==
    IF vptr # <<>> /\ vptr[1].live /\ k = lookups[1]
    THEN <<[vptr[1] EXCEPT !.live = FALSE]>>
    ELSE vptr

\* the supervisor of build/images/init/init.c when main() reaches line 168: no
\* agent forked yet, no child of init recorded (procs maps each child's pid to
\* its kind and to whether it runs or has exited and waits to be reaped)
SupStart == [pc |-> "boot", agent_pid |-> 0, procs |-> <<>>]

-----------------------------------------------------------------------------
(* State machine *)

Init ==
    /\ portmap = <<>>
    /\ pc = "idle"
    /\ skb = <<>>
    /\ rx = <<>>
    /\ loc = NoLoc
    /\ verdict = <<>>
    /\ reads = {}
    /\ lookups = <<>>
    /\ found = <<>>
    /\ applied = <<>>
    /\ failed = "none"
    /\ vptr = <<>>
    /\ sup = SupStart

\* control plane: upsert(PolicyKey, PolicyValue), at any time
Upsert ==
    /\ \E k \in PolicyKeys, v \in PolicyValues :
          /\ portmap' = [x \in DOMAIN portmap \cup {k} |-> IF x = k THEN v ELSE portmap[x]]
          /\ vptr' \in elem_after_update(k, v)
    /\ UNCHANGED <<pc, skb, rx, loc, verdict, reads, lookups, found, applied, failed, sup>>

\* control plane: remove(PolicyKey), at any time
Remove ==
    /\ \E k \in DOMAIN portmap :
          /\ portmap' = [x \in DOMAIN portmap \ {k} |-> portmap[x]]
          /\ vptr' = elem_after_delete(k)
    /\ UNCHANGED <<pc, skb, rx, loc, verdict, reads, lookups, found, applied, failed, sup>>

\* the network stack hands the next frame to the hook
Receive ==
    /\ pc = "idle"
    /\ \E f \in Frames :
          /\ skb' = f
          /\ rx' = f
    /\ pc' = "entry"
    /\ UNCHANGED <<portmap, loc, verdict, reads, lookups, found, applied, failed, vptr, sup>>

\* the frame leaves the hook with the verdict; nothing of the invocation is kept
Forward ==
    /\ pc = "done"
    /\ pc' = "idle"
    /\ skb' = <<>>
    /\ rx' = <<>>
    /\ loc' = NoLoc
    /\ verdict' = <<>>
    /\ reads' = {}
    /\ lookups' = <<>>
    /\ found' = <<>>
    /\ applied' = <<>>
    /\ failed' = "none"
    /\ UNCHANGED <<portmap, vptr, sup>>

Return(v) ==
    /\ pc' = "done"
    /\ verdict' = <<v>>

\* drift_l4_ingress up to the lookup: the parser and bpf_map_lookup_elem, which
\* returns NULL or a pointer to the element stored under the key
drift_l4_ingress ==
    /\ pc = "entry"
    /\ LET p == Parse(skb)
           key == make_key(p.proto, p.port)
           val == map_lookup(portmap, key)
       IN  /\ portmap' = IF p.ok THEN map_after_lookup(portmap, key) ELSE portmap
           /\ IF ~p.ok
              THEN /\ Return(ret_parse)
                   /\ reads' = p.reads
                   /\ UNCHANGED <<loc, lookups, found, vptr>>
              ELSE IF val = <<>>
              THEN /\ Return(ret_miss)
                   /\ reads' = p.reads
                   /\ lookups' = <<key>>
                   /\ UNCHANGED <<loc, found, vptr>>
              ELSE /\ reads' = p.reads
                   /\ lookups' = <<key>>
                   /\ found' = val
                   /\ vptr' = <<[val |-> val[1], live |-> TRUE]>>
                   /\ loc' = [NoLoc EXCEPT !.kind = IF p.proto = IPPROTO_TCP THEN "tcp" ELSE "udp",
                                           !.l3_off = p.l3_off, !.l4_off = p.l4_off]
                   /\ pc' = "load_ip"
                   /\ UNCHANGED verdict
    /\ UNCHANGED <<skb, rx, applied, failed, sup>>

\* lines 117 / 131: the load of value->dst_ip through the pointer
load_dst_ip ==
    /\ pc = "load_ip"
    /\ loc' = [loc EXCEPT !.new_ip = vptr[1].val.dst_ip]
    /\ pc' = "load_port"
    /\ UNCHANGED <<portmap, skb, rx, verdict, reads, lookups, found, applied, failed, vptr, sup>>

\* lines 117 / 131: the load of value->dst_port through the pointer, the call,
\* and the rewriter's loads of the old port, the old address and (UDP) the
\* checksum field (lines 34-35, 56-59); the pointer is not used again
load_dst_port ==
    /\ pc = "load_port"
    /\ LET tcp == loc.kind = "tcp" IN
       /\ loc' = [loc EXCEPT !.new_port = vptr[1].val.dst_port,
                             !.old_port = Rd16(skb, loc.l4_off + L4_DEST_OFF),
                             !.old_ip = Rd32(skb, loc.l3_off + IP_DADDR_OFF)]
       /\ reads' = reads \cup {<<loc.l4_off + L4_DEST_OFF, 2>>, <<loc.l3_off + IP_DADDR_OFF, 4>>}
                         \cup (IF tcp THEN {} ELSE {<<loc.l4_off + UDP_CHECK_OFF, 2>>})
       /\ pc' = IF tcp THEN "tcp_csum_port"
                ELSE IF udp_has_csum(Rd16(skb, loc.l4_off + UDP_CHECK_OFF))
                     THEN "udp_csum_port" ELSE "udp_l3_csum"
    /\ vptr' = <<>>
    /\ UNCHANGED <<portmap, skb, rx, verdict, lookups, found, applied, failed, sup>>

\* variant: a rewriter that ignores the result of its helper calls and goes on
Helper_continue(here, next, new) ==
    /\ pc = here
    /\ \E ok \in BOOLEAN :
          /\ skb' = IF ok THEN new ELSE skb
          /\ applied' = IF ok THEN Append(applied, here) ELSE applied
          /\ failed' = IF ok THEN failed ELSE here
          /\ IF next = "done" THEN Return(ret_done)
                              ELSE pc' = next /\ verdict' = verdict
    /\ UNCHANGED <<portmap, rx, loc, reads, lookups, found, vptr, sup>>

\* one helper call of a rewriter: it fails (non-zero, nothing written, the
\* rewriter returns) or succeeds (the frame becomes new) and control moves on
Helper(here, next, new) ==
    /\ pc = here
    /\ \E ok \in BOOLEAN :
          IF ok
          THEN /\ skb' = new
               /\ applied' = Append(applied, here)
               /\ failed' = failed
               /\ IF next = "done" THEN Return(ret_done)
                                   ELSE pc' = next /\ verdict' = verdict
          ELSE /\ skb' = skb
               /\ applied' = applied
               /\ failed' = here
               /\ Return(ret_fail)
    /\ UNCHANGED <<portmap, rx, loc, reads, lookups, found, vptr, sup>>

\* rewrite_tcp, lines 37..51
tcp_csum_port ==
    Helper("tcp_csum_port", "tcp_csum_ip",
           l4_csum_replace2(skb, loc.l4_off + TCP_CHECK_OFF, loc.old_port, loc.new_port))
\* variant: the pseudo-header update is given its operands the wrong way round
tcp_csum_ip_swapped ==
    Helper("tcp_csum_ip", "tcp_l3_csum",
           l4_csum_replace4(skb, loc.l4_off + TCP_CHECK_OFF, loc.new_ip, loc.old_ip))
tcp_csum_ip ==
    Helper("tcp_csum_ip", "tcp_l3_csum",
           l4_csum_replace4(skb, loc.l4_off + TCP_CHECK_OFF, loc.old_ip, loc.new_ip))
tcp_l3_csum ==
    Helper("tcp_l3_csum", "tcp_store_port",
           l3_csum_replace4(skb, loc.l3_off + IP_CHECK_OFF, loc.old_ip, loc.new_ip))
tcp_store_port ==
    Helper("tcp_store_port", "tcp_store_ip",
           skb_store_port(skb, loc.l4_off + L4_DEST_OFF, loc.new_port))
\* variant: the address is stored over the source address field
tcp_store_ip_saddr ==
    Helper("tcp_store_ip", "done",
           skb_store_ip(skb, loc.l3_off + IP_DADDR_OFF - 4, loc.new_ip))
tcp_store_ip ==
    Helper("tcp_store_ip", "done",
           skb_store_ip(skb, loc.l3_off + IP_DADDR_OFF, loc.new_ip))

\* rewrite_udp, lines 59..74
udp_csum_port ==
    Helper("udp_csum_port", "udp_csum_ip",
           l4_csum_replace2(skb, loc.l4_off + UDP_CHECK_OFF, loc.old_port, loc.new_port))
udp_csum_ip ==
    Helper("udp_csum_ip", "udp_l3_csum",
           l4_csum_replace4(skb, loc.l4_off + UDP_CHECK_OFF, loc.old_ip, loc.new_ip))
\* variant: the IPv4 checksum is left alone when the UDP checksum is zero
udp_l3_csum_skipzero ==
    Helper("udp_l3_csum", "udp_store_port",
           IF Rd16(skb, loc.l4_off + UDP_CHECK_OFF) = 0 THEN skb
           ELSE l3_csum_replace4(skb, loc.l3_off + IP_CHECK_OFF, loc.old_ip, loc.new_ip))
udp_l3_csum ==
    Helper("udp_l3_csum", "udp_store_port",
           l3_csum_replace4(skb, loc.l3_off + IP_CHECK_OFF, loc.old_ip, loc.new_ip))
udp_store_port ==
    Helper("udp_store_port", "udp_store_ip",
           skb_store_port(skb, loc.l4_off + L4_DEST_OFF, loc.new_port))
udp_store_ip ==
    Helper("udp_store_ip", "done",
           skb_store_ip(skb, loc.l3_off + IP_DADDR_OFF, loc.new_ip))

Invocation ==
    \/ drift_l4_ingress \/ load_dst_ip \/ load_dst_port
    \/ tcp_csum_port \/ tcp_csum_ip \/ tcp_l3_csum \/ tcp_store_port \/ tcp_store_ip
    \/ udp_csum_port \/ udp_csum_ip \/ udp_l3_csum \/ udp_store_port \/ udp_store_ip

Next == Upsert \/ Remove \/ Receive \/ Invocation \/ Forward

Spec == Init /\ [][Next]_vars

\* an invocation runs to completion: it is never suspended for good
FairSpec == Spec /\ WF_vars(Invocation) /\ WF_vars(Forward)

-----------------------------------------------------------------------------
(* Vocabulary of the properties *)

Done == pc = "done"
Matched == found # <<>>
Target == found[1]
Rewritten == Done /\ Matched /\ failed = "none"

EtherType(f) == Rd16(f, ETH_PROTO_OFF)
Ihl(f) == Rd8(f, ETH_HLEN) % 16
TotLen(f) == Rd16(f, ETH_HLEN + 2)

\* an IPv4 frame that holds the whole TCP or UDP header its protocol field announces
IsIpv4L4(f) ==
    /\ Len(f) >= ETH_HLEN + IPHDR_SIZE
    /\ EtherType(f) = ETH_P_IP
    /\ Ihl(f) >= MIN_IHL
    /\ \/ Proto(f) = IPPROTO_TCP /\ Len(f) >= L4Off(f) + TCPHDR_SIZE
       \/ Proto(f) = IPPROTO_UDP /\ Len(f) >= L4Off(f) + UDPHDR_SIZE

\* the frame is whole and the IPv4 checksum is the one a sender computes
IpValid(f) == IpCheck(f) = IpCsumScratch(f)
Whole(f) == IsIpv4L4(f) /\ Len(f) = ETH_HLEN + TotLen(f)
InputValid(f) == Whole(f) /\ IpValid(f) /\ L4Check(f) = L4CsumScratch(f)

\* a receiver accepts the L4 checksum: the sum over pseudo-header and segment,
\* checksum field included, is all ones (or UDP checksumming is off)
L4Accepted(f) ==
    \/ Proto(f) = IPPROTO_UDP /\ L4Check(f) = 0
    \/ Add16(L4SumScratch(f), L4Check(f)) = 65535

HasTarget(f) == Daddr(f) = Target.dst_ip /\ Dport(f) = Target.dst_port

-----------------------------------------------------------------------------
(* Claims *)

\* C1: atomicity of the rewrite: whichever helper call fails, the frame the
\* invocation ends with is either byte-identical to the frame received or fully
\* rewritten (address and port are the entry's, and for a frame that arrived
\* whole with good checksums both checksums are good for the new fields).
C1_Atomic ==
    Done =>
        \/ skb = rx
        \/ /\ Matched
           /\ HasTarget(skb)
           /\ (Whole(rx) /\ IpValid(rx) /\ L4Accepted(rx)) => (IpValid(skb) /\ L4Accepted(skb))

\* C2: a TCP frame with valid checksums whose key has an entry, every helper call
\* succeeding, leaves with the entry's address and port, and with an IPv4 and a
\* TCP checksum equal to the ones recomputed from scratch over the new frame.
C2_TcpRewritten ==
    (Rewritten /\ loc.kind = "tcp" /\ InputValid(rx)) =>
        /\ HasTarget(skb)
        /\ IpCheck(skb) = IpCsumScratch(skb)
        /\ L4Check(skb) = TcpCsumScratch(skb)

C2_Witness ==
    /\ Rewritten /\ loc.kind = "tcp" /\ InputValid(rx)
    /\ Ihl(rx) = 15 /\ Len(rx) > L4Off(rx) + TCPHDR_SIZE
    /\ Target.dst_port = 80 /\ skb # rx

\* C3: a UDP frame with a valid nonzero checksum whose key has an entry, every
\* helper call succeeding, leaves with a UDP checksum field equal to the UDP
\* checksum recomputed from scratch over the rewritten frame.
C3_UdpChecksum ==
    (Rewritten /\ loc.kind = "udp" /\ InputValid(rx) /\ L4Check(rx) # 0) =>
        L4Check(skb) = UdpCsumScratch(skb)

\* C4: a matched UDP frame that arrived with checksum field 0 keeps checksum
\* field 0 at every step, no UDP checksum update is applied to it, and once
\* every step has succeeded its address and port are the entry's.
C4_UdpZeroKept ==
    (loc.kind = "udp" /\ L4Check(rx) = 0) =>
        /\ L4Check(skb) = 0
        /\ \A i \in 1 .. Len(applied) : applied[i] \notin {"udp_csum_port", "udp_csum_ip"}
        /\ Rewritten => HasTarget(skb)

C4_Witness ==
    /\ Rewritten /\ loc.kind = "udp" /\ L4Check(rx) = 0
    /\ HasTarget(skb) /\ skb # rx /\ IpValid(skb)

\* C5: when the hook evaluates a well-formed IPv4 TCP or UDP frame whose
\* (protocol, destination port) key has no entry in the table at that moment,
\* it returns the forwarding verdict and the frame is as received.
C5_MissUntouched ==
    [][ (drift_l4_ingress /\ IsIpv4L4(skb)
         /\ [proto |-> Proto(skb), pad |-> 0, port |-> Dport(skb)] \notin DOMAIN portmap)
        => (pc' = "done" /\ verdict' = <<TC_ACT_OK>> /\ skb' = rx' /\ found' = <<>>) ]_vars

C5_Witness ==
    /\ Done /\ IsIpv4L4(rx) /\ found = <<>> /\ lookups # <<>>
    /\ Proto(rx) = IPPROTO_TCP /\ Dport(rx) = 53
    /\ DOMAIN portmap = PolicyKeys

\* C6: a frame whose EtherType is not IPv4 is never looked up, never changed,
\* and leaves with the forwarding verdict.
C6_NonIpv4Untouched ==
    (pc # "idle" /\ Len(rx) >= ETH_HLEN /\ EtherType(rx) # ETH_P_IP) =>
        /\ lookups = <<>>
        /\ skb = rx
        /\ pc \in {"entry", "done"}
        /\ Done => verdict = <<TC_ACT_OK>>

C6_Witness ==
    /\ Done /\ EtherType(rx) = 33024 /\ Len(rx) > ETH_HLEN + IPHDR_SIZE + TCPHDR_SIZE
    /\ DOMAIN portmap = PolicyKeys

\* the malformed and inapplicable frames of C7
Malformed(f) ==
    \/ Len(f) < ETH_HLEN
    \/ /\ EtherType(f) = ETH_P_IP
       /\ \/ Len(f) < ETH_HLEN + IPHDR_SIZE
          \/ Ihl(f) < MIN_IHL
          \/ Len(f) < L4Off(f) + BE16_SIZE
          \/ Proto(f) = IPPROTO_TCP /\ Len(f) < L4Off(f) + TCPHDR_SIZE
          \/ Proto(f) = IPPROTO_UDP /\ Len(f) < L4Off(f) + UDPHDR_SIZE
          \/ Proto(f) \notin {IPPROTO_TCP, IPPROTO_UDP}

\* C7: a truncated frame, an IPv4 frame with IHL < 5, with a truncated TCP or
\* UDP header, or with a protocol other than TCP and UDP is never looked up,
\* never changed, and leaves with the forwarding verdict.
C7_MalformedUntouched ==
    (pc # "idle" /\ Malformed(rx)) =>
        /\ lookups = <<>>
        /\ skb = rx
        /\ pc \in {"entry", "done"}
        /\ Done => verdict = <<TC_ACT_OK>>

C7_Witness ==
    /\ Done /\ EtherType(rx) = ETH_P_IP /\ Len(rx) >= ETH_HLEN + IPHDR_SIZE
    /\ Ihl(rx) = 6 /\ Proto(rx) = IPPROTO_TCP /\ Len(rx) = L4Off(rx) + TCPHDR_SIZE - 1
    /\ Rd16(rx, L4Off(rx) + L4_DEST_OFF) = 8080
    /\ Key(IPPROTO_TCP, 8080) \in DOMAIN portmap

\* C8: every dereference of the frame lies inside the buffer.
C8_NoReadPastEnd ==
    \A r \in reads : r[1] + r[2] <= Len(rx)

C8_Witness ==
    /\ Ihl(rx) = 15 /\ Proto(rx) = IPPROTO_UDP
    /\ Len(rx) = L4Off(rx) + UDPHDR_SIZE
    /\ <<L4Off(rx) + UDP_CHECK_OFF, 2>> \in reads
    /\ <<ETH_HLEN + IP_DADDR_OFF, 4>> \in reads

\* C9: every invocation ends, and ends with a verdict that forwards the frame:
\* never TC_ACT_SHOT (2), TC_ACT_STOLEN (4), TC_ACT_QUEUED (5) or
\* TC_ACT_TRAP (8), on any path.
C9_AlwaysForwards ==
    /\ [](pc = "entry" => <>Done)
    /\ [](Done => (Len(verdict) = 1 /\ verdict[1] \notin {2, 4, 5, 8}))
    /\ [](~Done => verdict = <<>>)

C9_Witness ==
    /\ Done /\ failed = "udp_store_ip" /\ verdict = <<TC_ACT_OK>>

\* the verdict of a frame passed through untouched
FORWARD_UNMODIFIED == TC_ACT_OK

\* C10 as stated: the verdict alone tells whether the frame was rewritten, i.e.
\* the pass-through verdict is returned exactly when no rewrite succeeded.
C10_VerdictTells ==
    Done => ((verdict = <<FORWARD_UNMODIFIED>>) <=> ~Rewritten)

\* C10 amended: every path returns the same verdict TC_ACT_OK, a successful
\* rewrite like a parser rejection or a table miss.
C10_VerdictUniform ==
    Done => verdict = <<TC_ACT_OK>>

C10_Witness ==
    /\ Rewritten /\ skb # rx /\ HasTarget(skb) /\ verdict = <<FORWARD_UNMODIFIED>>

\* the byte offsets of the four fields a rewrite may change
RewriteFields(f) ==
    {ETH_HLEN + IP_CHECK_OFF, ETH_HLEN + IP_CHECK_OFF + 1}
    \cup {ETH_HLEN + IP_DADDR_OFF + i : i \in 0 .. 3}
    \cup {L4Off(f) + L4_DEST_OFF, L4Off(f) + L4_DEST_OFF + 1}
    \cup {L4CheckOff(f), L4CheckOff(f) + 1}

\* C11: at every point of an invocation, and so in every frame a successful
\* rewrite produces, the frame has the length it arrived with and every byte
\* outside the IPv4 destination address, the IPv4 checksum, the L4 destination
\* port and the L4 checksum is the byte received.
C11_OnlyFourFields ==
    \/ skb = rx
    \/ LET fields == RewriteFields(rx)
       IN  /\ Len(skb) = Len(rx)
           /\ \A o \in (0 .. Len(rx) - 1) \ fields : skb[o + 1] = rx[o + 1]

C11_Witness ==
    /\ Rewritten /\ loc.kind = "tcp" /\ Ihl(rx) = 15
    /\ Len(rx) = L4Off(rx) + TCPHDR_SIZE
    /\ Daddr(skb) # Daddr(rx) /\ Dport(skb) # Dport(rx)
    /\ IpCheck(skb) # IpCheck(rx) /\ L4Check(skb) # L4Check(rx)


\* the invocation has loaded both fields of the value it looked up
Loaded == loc.kind # "none" /\ pc \notin {"load_ip", "load_port"}

\* C12: the address and the port an invocation rewrites with are the complete
\* value of one version of the entry: a pair the control plane stored as a whole,
\* never the address of one version with the port of another.
C12_OneVersion ==
    Loaded => Value(loc.new_ip, loc.new_port) \in PolicyValues

\* C13: the dataplane is read-only with respect to the policy table: no step of
\* a frame's evaluation (its arrival, the parser, the lookup, the loads, any
\* helper call with any outcome, its forwarding) changes the table's keys or
\* values; only the control plane's upsert and remove do.
C13_TableReadOnly ==
    [][ (Receive \/ Invocation \/ Forward) => portmap' = portmap ]_vars

\* evaluations that hit, missed and never looked up have completed on a table
\* that still holds what the control plane stored
C13_Witness ==
    /\ Rewritten /\ lookups # <<>>
    /\ lookups[1] \in DOMAIN portmap /\ portmap[lookups[1]] = Target

-----------------------------------------------------------------------------
(* The rewriters as functions of the frame received and the value looked up *)

TcpSteps == <<"tcp_csum_port", "tcp_csum_ip", "tcp_l3_csum", "tcp_store_port", "tcp_store_ip">>
UdpSteps == <<"udp_csum_port", "udp_csum_ip", "udp_l3_csum", "udp_store_port", "udp_store_ip">>

\* the helper calls rewrite_tcp / rewrite_udp make on frame f, in program order
StepsFor(f) ==
    IF Proto(f) = IPPROTO_TCP THEN TcpSteps
    ELSE IF L4Check(f) = 0 THEN SubSeq(UdpSteps, 3, 5) ELSE UdpSteps

\* frame f after one helper call of the rewrite of frame orig to value v
StepResult(step, f, orig, v) ==
    LET l3 == ETH_HLEN
        l4 == L4Off(orig)
        ck == L4CheckOff(orig)
    IN  CASE step \in {"tcp_csum_port", "udp_csum_port"} ->
                 l4_csum_replace2(f, ck, Dport(orig), v.dst_port)
          [] step \in {"tcp_csum_ip", "udp_csum_ip"} ->
                 l4_csum_replace4(f, ck, Daddr(orig), v.dst_ip)
          [] step \in {"tcp_l3_csum", "udp_l3_csum"} ->
                 l3_csum_replace4(f, l3 + IP_CHECK_OFF, Daddr(orig), v.dst_ip)
          [] step \in {"tcp_store_port", "udp_store_port"} ->
                 skb_store_port(f, l4 + L4_DEST_OFF, v.dst_port)
          [] step \in {"tcp_store_ip", "udp_store_ip"} ->
                 skb_store_ip(f, l3 + IP_DADDR_OFF, v.dst_ip)

RECURSIVE ApplySteps(_, _, _, _)
ApplySteps(steps, f, orig, v) ==
    IF steps = <<>> THEN f
    ELSE ApplySteps(Tail(steps), StepResult(Head(steps), f, orig, v), orig, v)

\* one evaluation of frame f against table map, every helper call succeeding:
\* the decision and the frame forwarded
Eval(f, map) ==
    IF ~IsIpv4L4(f) THEN [decision |-> "NotApplicable", out |-> f]
    ELSE LET k == Key(Proto(f), Dport(f))
         IN  IF k \notin DOMAIN map THEN [decision |-> "miss", out |-> f]
             ELSE [decision |-> "match", out |-> ApplySteps(StepsFor(f), f, f, map[k])]

\* the decision the invocation took
Decision ==
    IF lookups = <<>> THEN "NotApplicable" ELSE IF found = <<>> THEN "miss" ELSE "match"

\* the table holds what the invocation saw of it: unchanged since the frame
\* arrived, or changed back
TableAsSeen ==
    /\ IsIpv4L4(rx) => found = map_lookup(portmap, Key(Proto(rx), Dport(rx)))
    /\ Matched => Value(loc.new_ip, loc.new_port) = Target

\* C14: evaluation is stateless and deterministic: nothing of an invocation is
\* kept once its frame is forwarded, and with the table unchanged the decision
\* (NotApplicable, miss or match) and the frame forwarded are a function of the
\* frame's bytes and the table alone, so evaluating the same bytes again, after
\* or between any other frames, gives the same decision and the same output.
C14_Stateless ==
    /\ pc = "idle" =>
          /\ loc = NoLoc /\ found = <<>> /\ lookups = <<>> /\ vptr = <<>>
          /\ skb = <<>> /\ applied = <<>> /\ failed = "none"
    /\ (Done /\ TableAsSeen) =>
          /\ Decision = Eval(rx, portmap).decision
          /\ failed = "none" => skb = Eval(rx, portmap).out

C14_Witness ==
    /\ Done /\ TableAsSeen /\ failed = "none"
    /\ Decision = "match" /\ skb # rx /\ skb = Eval(rx, portmap).out
    /\ Eval(skb, portmap).decision = "miss"

\* the bytes of the IPv4 options of frame f
OptionBytes(f) == ETH_HLEN + IPHDR_SIZE .. ETH_HLEN + Ihl(f) * 4 - 1

\* C15: for every IHL from 5 to 15 the L4 header is located at 14 + IHL*4: a
\* lookup is made only when the TCP/UDP header fits behind that offset, the
\* key's port is the 16 bits at that offset + 2, the rewriter works at that
\* offset (the port is stored there), and no option byte is read or overwritten.
C15_L4Offset ==
    lookups # <<>> =>
        LET l4 == ETH_HLEN + Ihl(rx) * 4
        IN  /\ Ihl(rx) \in MIN_IHL .. 15
            /\ Len(rx) >= l4 + (IF Proto(rx) = IPPROTO_TCP THEN TCPHDR_SIZE ELSE UDPHDR_SIZE)
            /\ lookups[1].port = Rd16(rx, l4 + L4_DEST_OFF)
            /\ \A r \in reads : r[1] + r[2] <= ETH_HLEN + IPHDR_SIZE \/ r[1] >= l4
            /\ Matched => loc.l4_off = l4
            /\ \A o \in OptionBytes(rx) : skb[o + 1] = rx[o + 1]
            /\ Rewritten => Rd16(skb, l4 + L4_DEST_OFF) = loc.new_port

C15_Witness ==
    /\ Rewritten /\ loc.kind = "udp" /\ Ihl(rx) = 15 /\ L4Check(rx) # 0
    /\ loc.l4_off = ETH_HLEN + 60
    /\ Rd16(skb, ETH_HLEN + 60 + L4_DEST_OFF) = 5353
    /\ Rd16(rx, ETH_HLEN + IPHDR_SIZE + L4_DEST_OFF) # 53

ChecksumSteps ==
    {"tcp_csum_port", "tcp_csum_ip", "tcp_l3_csum", "udp_csum_port", "udp_csum_ip", "udp_l3_csum"}

\* C16: every checksum update that is applied takes as its old operand the
\* destination port or address of the frame as received, held in a local since
\* before the first mutation: its result is the update computed from the
\* received frame's port and address to the loaded ones.
C16_OldOperands ==
    [][ (Len(applied') = Len(applied) + 1 /\ applied'[Len(applied')] \in ChecksumSteps) =>
          /\ loc.old_port = Dport(rx) /\ loc.old_ip = Daddr(rx)
          /\ skb' = StepResult(applied'[Len(applied')], skb, rx,
                               Value(loc.new_ip, loc.new_port)) ]_vars

C16_Witness ==
    /\ Rewritten /\ applied = TcpSteps
    /\ loc.old_port = Dport(rx) /\ loc.old_ip = Daddr(rx)
    /\ Dport(skb) # loc.old_port /\ Daddr(skb) # loc.old_ip
    /\ InputValid(rx) /\ L4Accepted(skb) /\ IpValid(skb)

\* s is an initial part of t
IsPrefix(s, t) == Len(s) <= Len(t) /\ s = SubSeq(t, 1, Len(s))

\* C17: the rewrite steps run in the fixed order L4 checksum (port), L4 checksum
\* (address), IPv4 checksum, store port, store address (the two L4 steps left
\* out for a UDP frame with checksum 0) and stop at the first step that fails:
\* at every point the frame is the received frame with exactly the steps
\* applied so far, these are the first steps of the order, and when step k fails
\* the invocation is over, steps 1..k-1 are the ones applied, and the frame is
\* forwarded as it then is.
C17_StopsAtFirstFailure ==
    IF ~Loaded
    THEN skb = rx /\ applied = <<>> /\ failed = "none"
    ELSE LET steps == StepsFor(rx)
             v == Value(loc.new_ip, loc.new_port)
         IN  /\ IsPrefix(applied, steps)
             /\ skb = ApplySteps(applied, rx, rx, v)
             /\ ~Done => failed = "none" /\ pc = steps[Len(applied) + 1]
             /\ Done => verdict = <<TC_ACT_OK>>
             /\ (Done /\ failed = "none") => applied = steps
             /\ failed # "none" =>
                   /\ Done
                   /\ Len(applied) < Len(steps)
                   /\ failed = steps[Len(applied) + 1]

\* the IPv4 checksum step of a TCP rewrite has failed after both TCP checksum
\* steps were applied
C17_Witness ==
    /\ Done /\ failed = "tcp_l3_csum"
    /\ applied = <<"tcp_csum_port", "tcp_csum_ip">>
    /\ L4Check(skb) # L4Check(rx) /\ IpCheck(skb) = IpCheck(rx)
    /\ Dport(skb) = Dport(rx) /\ Daddr(skb) = Daddr(rx)

\* C18: a matched UDP frame, with checksum field zero or not, once every step
\* has succeeded: the IPv4 checksum step and both stores were applied, the IPv4
\* checksum is the received one updated for the address change and is the one
\* recomputed over the new header when the received one was good, address and
\* port are the loaded ones, and no other byte of the IPv4 header has changed.
C18_UdpIpChecksum ==
    (Rewritten /\ loc.kind = "udp") =>
        /\ \A st \in {"udp_l3_csum", "udp_store_port", "udp_store_ip"} :
              \E i \in 1 .. Len(applied) : applied[i] = st
        /\ IpCheck(skb) = IpCheck(l3_csum_replace4(rx, ETH_HLEN + IP_CHECK_OFF,
                                                   Daddr(rx), loc.new_ip))
        /\ IpValid(rx) => IpValid(skb)
        /\ Daddr(skb) = loc.new_ip /\ Dport(skb) = loc.new_port
        /\ \A o \in ETH_HLEN .. L4Off(rx) - 1 :
              o \notin {ETH_HLEN + IP_CHECK_OFF, ETH_HLEN + IP_CHECK_OFF + 1}
                       \cup {ETH_HLEN + IP_DADDR_OFF + i : i \in 0 .. 3}
              => skb[o + 1] = rx[o + 1]

C18_Witness ==
    /\ Rewritten /\ loc.kind = "udp" /\ L4Check(rx) = 0 /\ Ihl(rx) = 6
    /\ IpValid(rx) /\ IpValid(skb) /\ IpCheck(skb) # IpCheck(rx)
    /\ applied = SubSeq(UdpSteps, 3, 5)

\* C19: the lookup depends only on the frame's IP protocol and L4 destination
\* port: the key looked up is (protocol, 0, destination port), and the result is
\* the value stored under exactly that key or a miss, whatever the frame's other
\* bytes are; an entry for the same port under the other protocol is no hit.
C19_KeyIsProtoPort ==
    [][ (drift_l4_ingress /\ lookups' # <<>>) =>
          LET k == Key(Proto(skb), Dport(skb))
          IN  /\ lookups' = <<k>>
              /\ lookups'[1].pad = 0
              /\ k.proto \in {IPPROTO_TCP, IPPROTO_UDP}
              /\ found' = IF k \in DOMAIN portmap THEN <<portmap[k]>> ELSE <<>> ]_vars

\* a TCP frame to port 53 has missed while the table holds an entry for UDP
\* port 53
C19_Witness ==
    /\ Done /\ lookups = <<Key(IPPROTO_TCP, 53)>> /\ found = <<>>
    /\ Key(IPPROTO_UDP, 53) \in DOMAIN portmap
    /\ Key(IPPROTO_TCP, 53) \notin DOMAIN portmap
    /\ Ihl(rx) = 7 /\ skb = rx

-----------------------------------------------------------------------------
(* The supervisor loop of the image init, build/images/init/init.c 167-201 *)

MaxPid == 5

\* the pids fork() may give a new child of init (pid 1)
Pids == 2 .. MaxPid
FreePids == Pids \ DOMAIN sup.procs

Child(kind, st) == [kind |-> kind, st |-> st]
WithChild(procs, p, c) == [x \in DOMAIN procs \cup {p} |-> IF x = p THEN c ELSE procs[x]]
WithoutChild(procs, p) == [x \in DOMAIN procs \ {p} |-> procs[x]]

\* agent_pid = fork(): a new child that execs viper-agent, or -1 and no child
fork_agent(next) ==
    \E r \in FreePids \cup {-1} :
        sup' = [pc |-> next, agent_pid |-> r,
                procs |-> IF r = -1 THEN sup.procs
                          ELSE WithChild(sup.procs, r, Child("agent", "running"))]

\* line 169: the first launch of the agent
sup_launch ==
    /\ sup.pc = "boot"
    /\ fork_agent("wait")
    /\ UNCHANGED <<portmap, pc, skb, rx, loc, verdict, reads, lookups, found, applied, failed, vptr>>

\* lines 184-186, 197-199: wait() returns an exited child, which is reaped; the
\* agent's pid leads to the restart, any other pid back to wait()
sup_wait ==
    /\ sup.pc = "wait"
    /\ \E p \in DOMAIN sup.procs :
          /\ sup.procs[p].st = "exited"
          /\ sup' = [sup EXCEPT !.procs = WithoutChild(sup.procs, p),
                                !.pc = IF p = sup.agent_pid THEN "restart" ELSE "wait"]
    /\ UNCHANGED <<portmap, pc, skb, rx, loc, verdict, reads, lookups, found, applied, failed, vptr>>

\* lines 187-196: sleep(2) and the fork of a new agent
sup_restart ==
    /\ sup.pc = "restart"
    /\ fork_agent("wait")
    /\ UNCHANGED <<portmap, pc, skb, rx, loc, verdict, reads, lookups, found, applied, failed, vptr>>

\* a child exits: the agent (crash, or execve failed and _exit(1), lines 174-177
\* and 191-195), dbus-daemon, the shell, an orphan
child_exit ==
    /\ \E p \in DOMAIN sup.procs :
          /\ sup.procs[p].st = "running"
          /\ sup' = [sup EXCEPT !.procs[p].st = "exited"]
    /\ UNCHANGED <<portmap, pc, skb, rx, loc, verdict, reads, lookups, found, applied, failed, vptr>>

\* init has one more child that is not the agent: dbus-daemon (line 143), the
\* debug shell (line 151), or an orphan re-parented to pid 1
child_other ==
    /\ \E p \in FreePids :
          sup' = [sup EXCEPT !.procs = WithChild(sup.procs, p, Child("other", "running"))]
    /\ UNCHANGED <<portmap, pc, skb, rx, loc, verdict, reads, lookups, found, applied, failed, vptr>>

SupNext == sup_launch \/ sup_wait \/ sup_restart \/ child_exit \/ child_other

SupSpec == Init /\ [][SupNext]_vars

\* C20: agent supervision: whenever the supervisor is in its loop, the pid it
\* tracks is an agent process that runs or has exited and is still to be
\* reaped, so that each exit of the agent is seen by wait() and answered with a
\* new agent.  (The loop assigns agent_pid only when wait() returns agent_pid:
\* once the tracked pid is no child, no agent is ever started again.)
C20_AgentTracked ==
    sup.pc = "wait" =>
        /\ sup.agent_pid \in DOMAIN sup.procs
        /\ sup.procs[sup.agent_pid].kind = "agent"

====
